---- MODULE Spec2Model ----
(***************************************************************************)
(* Model of the ephemeral Nostr relay (NostrRelay / ClientSession and the  *)
(* pure helpers match_filter, match_tags, verify_event).                   *)
(*                                                                         *)
(* One action stands for one callback the event loop runs to completion:   *)
(* a websocket 'connection', 'message' or 'close' callback, the purge      *)
(* timer, start() and close().  The frames a callback writes and the       *)
(* store() calls it makes are recorded, in program order, in fx.           *)
(***************************************************************************)
EXTENDS Integers, Sequences, FiniteSets, TLC

(* ------------------------------ bounds --------------------------------- *)
MaxCache == 2
MaxFrames == 3
MaxStore == 3
MaxTime == 3

\* the sessions of a run
Conns == {1, 2}
\* the servers of a run, in the order start() makes them
Servers == {1, 2}

(* ------------------------- program constants --------------------------- *)
TunnelKind == 24133
NormalClosure == 1000

(* ------------------------------ events --------------------------------- *)
\* JSON.stringify([0, pubkey, created_at, kind, tags, content])
Serialize(e) == <<0, e.pubkey, e.created_at, e.kind, e.tags, e.content>>
\* sha256 as a collision-free symbolic digest of the preimage
Sha256Hex(pimg) == <<"sha256", pimg>>

\* A Schnorr signature made with the key of pk over message m: 64 bytes,
\* on the wire 128 hex digits.
Sign(pk, m) == [by |-> pk, over |-> m]
\* a sig member that is no string of 128 hex digits
NotHex(text) == [nothex |-> text]
IsHex64(sig) == "nothex" \notin DOMAIN sig

\* the outcome of a step that may throw
Throws == [threw |-> TRUE]
Returns(v) == [threw |-> FALSE, val |-> v]

\* schnorr.verify(sig, id, pubkey) turns the signature into 64 bytes before
\* it verifies anything: a string that is not hex, or not of that length,
\* makes it throw; only what goes wrong after the conversion gives false
SchnorrVerify(sig, m, pk) ==
  IF ~IsHex64(sig) THEN Throws ELSE Returns(sig = [by |-> pk, over |-> m])

verify_event(e) ==
  LET dig == Sha256Hex(Serialize(e))
  IN IF dig # e.id THEN Returns(FALSE)
     ELSE SchnorrVerify(e.sig, e.id, e.pubkey)

MkEvent(pk, t, k, tags, content) ==
  LET body == [pubkey |-> pk, created_at |-> t, kind |-> k,
               tags |-> tags, content |-> content]
      id == Sha256Hex(Serialize(body))
  IN [id |-> id, pubkey |-> pk, created_at |-> t, kind |-> k,
      tags |-> tags, content |-> content, sig |-> Sign(pk, id)]

EvA == MkEvent("P1", 1, 1, <<>>, "hello")
EvB == MkEvent("P2", 2, 1, << <<"e", "X">> >>, "yo")
\* content changed after signing: id is no longer the hash
EvBadId == [EvA EXCEPT !.content = "tampered"]
\* correct id, signature made by another key
EvBadSig == [EvB EXCEPT !.sig = Sign("P1", EvB.id)]
\* correct id, and a sig member that is not hex
EvMalSig == [EvB EXCEPT !.sig = NotHex("invalid_signature_00")]
\* signing-tunnel event addressed to P2, never validated
EvTun == [MkEvent("P1", 2, TunnelKind, << <<"p", "P2">> >>, "rpc")
            EXCEPT !.sig = Sign("nobody", <<"sha256", <<>> >>)]

\* EvA with one more key, "toString": "x"; id and signature cover the six
\* signed fields and stay valid
EvAts == ("toString" :> "x") @@ EvA

Events == {EvA, EvB, EvBadId, EvBadSig, EvTun}

\* the JSON value null, as a frame element: it has none of the fields of
\* an event or a filter, and reading a field of it throws a TypeError
JsonNull == [null |-> TRUE]
IsNull(x) == "null" \in DOMAIN x
EvNull == JsonNull

(* ------------------------------ filters -------------------------------- *)
\* A filter is a record holding only the keys that are present.
Has(f, k) == k \in DOMAIN f
Includes(arr, x) == \E i \in 1..Len(arr) : arr[i] = x

\* the keys a filter of this model may carry, as their characters
KeyChars ==
  [ids |-> <<"i", "d", "s">>,
   authors |-> <<"a", "u", "t", "h", "o", "r", "s">>,
   kinds |-> <<"k", "i", "n", "d", "s">>,
   since |-> <<"s", "i", "n", "c", "e">>,
   until |-> <<"u", "n", "t", "i", "l">>,
   limit |-> <<"l", "i", "m", "i", "t">>]
  @@ ("#t" :> <<"#", "t">>) @@ ("#e" :> <<"#", "e">>)
  @@ ("#p" :> <<"#", "p">>) @@ ("#ex" :> <<"#", "e", "x">>)
  @@ ("#" :> <<"#">>)

\* the keys in the order Object.entries meets them; a record does not keep
\* the order its keys were written in, so one order stands for all
KeyOrder ==
  <<"ids", "authors", "kinds", "since", "until", "limit",
    "#t", "#e", "#p", "#ex", "#">>

\* const { authors, ids, kinds, since, until, limit, ...rest } = filter
Rest(f) == DOMAIN f \ {"authors", "ids", "kinds", "since", "until", "limit"}
\* key.startsWith('#')
StartsWithHash(k) == KeyChars[k][1] = "#"
\* the keys of a filter that become tag filters
TagKeys(f) == {k \in Rest(f) : StartsWithHash(k)}
\* key.slice(1, 2)
TagName(k) == IF Len(KeyChars[k]) >= 2 THEN KeyChars[k][2] ELSE ""
Tail1(s) == SubSeq(s, 2, Len(s))

\* the tag's name not compared with the key
match_tags_AnyName(filters, tags) ==
  \A i \in 1..Len(filters) :
    LET terms == Tail1(filters[i])
    IN \/ Len(terms) = 0
       \/ \E j \in 1..Len(tags) :
            /\ Len(tags[j]) >= 1
            /\ \E t \in 1..Len(terms) : Includes(Tail1(tags[j]), terms[t])

\* match_tags: every tag filter with terms needs one tag of that name with
\* one of the terms among its parameters.
match_tags(filters, tags) ==
  \A i \in 1..Len(filters) :
    LET key == filters[i][1]
        terms == Tail1(filters[i])
    IN \/ Len(terms) = 0
       \/ \E j \in 1..Len(tags) :
            /\ Len(tags[j]) >= 1
            /\ tags[j][1] = key
            /\ \E t \in 1..Len(terms) : Includes(Tail1(tags[j]), terms[t])

\* Object.entries(rest).filter(startsWith '#').map([name, ...terms])
tag_filters(f) ==
  LET keys == SelectSeq(KeyOrder, LAMBDA k : k \in TagKeys(f))
  IN [i \in 1..Len(keys) |-> <<TagName(keys[i])>> \o f[keys[i]]]

\* until taken as an exclusive bound
match_filter_UntilExclusive(e, f) ==
  IF Has(f, "ids") /\ ~Includes(f.ids, e.id) THEN FALSE
  ELSE IF Has(f, "since") /\ e.created_at < f.since THEN FALSE
  ELSE IF Has(f, "until") /\ e.created_at >= f.until THEN FALSE
  ELSE IF Has(f, "authors") /\ ~Includes(f.authors, e.pubkey) THEN FALSE
  ELSE IF Has(f, "kinds") /\ ~Includes(f.kinds, e.kind) THEN FALSE
  ELSE IF Len(tag_filters(f)) > 0 THEN match_tags(tag_filters(f), e.tags)
  ELSE TRUE

match_filter(e, f) ==
  IF Has(f, "ids") /\ ~Includes(f.ids, e.id) THEN FALSE
  ELSE IF Has(f, "since") /\ e.created_at < f.since THEN FALSE
  ELSE IF Has(f, "until") /\ e.created_at > f.until THEN FALSE
  ELSE IF Has(f, "authors") /\ ~Includes(f.authors, e.pubkey) THEN FALSE
  ELSE IF Has(f, "kinds") /\ ~Includes(f.kinds, e.kind) THEN FALSE
  ELSE IF Len(tag_filters(f)) > 0 THEN match_tags(tag_filters(f), e.tags)
  ELSE TRUE

NoFilter == [x \in {} |-> 0]
NullFilter == JsonNull
FKindLimit1 == [kinds |-> <<1>>, limit |-> 1]
FLimit0 == [limit |-> 0]
FAuthorP2 == [authors |-> <<"P2">>]
FTunP1 == ("kinds" :> <<TunnelKind>>) @@ ("#p" :> <<"P1">>)
FTunP2 == ("kinds" :> <<TunnelKind>>) @@ ("#p" :> <<"P2">>)

\* the filter lists a REQ may carry
FilterLists ==
  { <<>>,
    <<NoFilter>>,
    <<FKindLimit1, FAuthorP2>>,
    <<FLimit0, FTunP1>>,
    <<FTunP1, FTunP2>> }

(* ------------------------ frames of other shapes ----------------------- *)
\* a text frame: whether JSON.parse accepts it, whether the value is an
\* array, and the array's elements
Frame(text, parses, isArray, elems) ==
  [text |-> text, parses |-> parses, isArray |-> isArray, elems |-> elems]

FrUnparsable == Frame("{", FALSE, FALSE, <<>>)
FrObject == Frame("{}", TRUE, FALSE, <<>>)
FrEvent3 == Frame("[\"EVENT\",{},{}]", TRUE, TRUE, <<"EVENT", "{}", "{}">>)
FrReq1 == Frame("[\"REQ\"]", TRUE, TRUE, <<"REQ">>)
FrClose1 == Frame("[\"CLOSE\"]", TRUE, TRUE, <<"CLOSE">>)
FrOpaque == Frame("[\"AUTH\",\"x\"]", TRUE, TRUE, <<"AUTH", "x">>)

OtherFrames == {FrUnparsable, FrObject, FrEvent3, FrReq1, FrClose1, FrOpaque}

(* --------------------------- identifiers ------------------------------- *)
\* Math.random().toString().slice(2, 8): any digit string may come out,
\* also one a session already has
Sids == {"100001", "100002"}
\* sids are interchangeable: the first session's is fixed
SidDraws(c) == IF c = 1 THEN {"100001"} ELSE Sids

\* a subscription id, as its '/'-separated parts: "s" and "t/u"
SubIds == { <<"s">>, <<"t", "u">> }
SubIdsOf(c) == IF c = 1 THEN SubIds ELSE { <<"s">> }

\* `${sid}/${sub_id}`
Uid(sid, sub_id) == <<sid>> \o sub_id
\* const [clientId, subId] = uid.split('/')
SplitSubId(uid) == <<uid[2]>>

(* ------------------------------- state --------------------------------- *)
VARIABLES
  purge,       \* NostrRelay._purge is set (a purge interval was given)
  purgeTimer,  \* the setInterval of the 'listening' callback is armed
  hasWss,      \* NostrRelay._wss is not null: it is the server of the
               \* latest start()
  server,      \* per start(): the WebSocketServer it made, "none",
               \* "starting", "listening" or "closed" (close() was called)
  clientOf,    \* per connection: the server whose clients holds its
               \* socket, 0 for none
  isClosing,   \* NostrRelay._isClosing
  cache,       \* NostrRelay._cache, in array order
  subs,        \* NostrRelay._subs, a Map, as its entries in insertion order
  conn,        \* NostrRelay.conn
  sess,        \* per connection: "none", "live" (callbacks wired), "gone"
  sid,         \* ClientSession._sid
  ssubs,       \* ClientSession._subs
  readyState,  \* socket.readyState
  rcv,         \* the socket still delivers 'message' events
  last,        \* the callback that ran last, with its arguments
  fx,          \* what that callback did, in order: frames written, store()
  acked,       \* events some publisher got OK true for
  ackedKept,   \* ... and the store was not emptied since
  storedSince, \* events put in the store since it was last emptied
  nframes,     \* 'message' callbacks and store() calls run so far
  quota,       \* how many of them the run is followed for
  nstarts,     \* calls of start() so far
  closeRun,    \* per server started: the close() that shut it down, "none",
               \* "waiting" (timer armed, promise pending) or "resolved"
               \* (by the timer or by the listener's callback)
  closedSubs   \* per live connection: ids it closed and has not requested
               \* since

vars == <<purge, quota, purgeTimer, hasWss, server, clientOf, isClosing, cache,
          subs, conn, sess, sid, ssubs, readyState, rcv, last, fx, acked,
          ackedKept, storedSince, nframes, nstarts, closeRun, closedSubs>>

relayVars == <<purge, quota, purgeTimer, hasWss, server, isClosing, nstarts,
               closeRun>>
sockVars == <<sess, sid, readyState, rcv, clientOf>>

\* NostrRelay._wss, by the state of the server it refers to
wss == IF hasWss THEN server[nstarts] ELSE "null"

(* ------------------------------ helpers -------------------------------- *)
\* ClientSession.send: written only to a socket that is OPEN
send(c, frame) ==
  IF readyState[c] = "OPEN"
  THEN << [op |-> "send", to |-> c, frame |-> frame] >>
  ELSE <<>>

\* a statement that throws, in the order of effects; what the enclosing
\* catch keeps of the effects is what came before it
ThrowFx == << [op |-> "throw"] >>
Thrown(effects) == \E i \in 1..Len(effects) : effects[i].op = "throw"
RECURSIVE Caught(_)
Caught(effects) ==
  IF effects = <<>> \/ Head(effects).op = "throw" THEN <<>>
  ELSE <<Head(effects)>> \o Caught(Tail(effects))

NoticeFrame(args) == [verb |-> "NOTICE", args |-> args]
RawFrame(text) == [verb |-> "RAW", text |-> text]
OkFrame(e, ok, msg) == [verb |-> "OK", id |-> e.id, ok |-> ok, msg |-> msg]
EventFrame(sub_id, e) == [verb |-> "EVENT", sub |-> sub_id, event |-> e]
EoseFrame(sub_id) == [verb |-> "EOSE", sub |-> sub_id]

\* a > b converts both operands to primitives.  For an object valueOf()
\* gives the object back, so toString decides: a plain object becomes
\* "[object Object]", all of them the same string (rank 0); an object with
\* an own key "toString" (in JSON its value is never callable) has no
\* primitive value and the conversion throws TypeError.
ToPrimitiveRank(x) == IF "toString" \in DOMAIN x THEN Throws ELSE Returns(0)
\* (a, b) => a > b ? -1 : 1
SortCompare(a, b) ==
  IF ToPrimitiveRank(a).threw \/ ToPrimitiveRank(b).threw THEN Throws
  ELSE Returns(IF ToPrimitiveRank(a).val > ToPrimitiveRank(b).val
               THEN -1 ELSE 1)

\* Array.prototype.sort on a short array: the leading run is found (and
\* reversed when descending), the rest is placed by binary insertion.  An
\* exception of the comparator ends the sort.
RECURSIVE RunEnd(_, _, _)
RunEnd(a, i, desc) ==
  IF i > Len(a) THEN Returns(i - 1)
  ELSE LET order == SortCompare(a[i], a[i - 1])
       IN IF order.threw THEN Throws
          ELSE IF (desc /\ order.val >= 0) \/ (~desc /\ order.val < 0)
          THEN Returns(i - 1)
          ELSE RunEnd(a, i + 1, desc)

Reverse(a) == [i \in 1..Len(a) |-> a[Len(a) + 1 - i]]

RECURSIVE BSearch(_, _, _, _)
BSearch(a, pivot, left, right) ==
  IF left >= right THEN Returns(left)
  ELSE LET mid == left + ((right - left) \div 2)
           order == SortCompare(pivot, a[mid])
       IN IF order.threw THEN Throws
          ELSE IF order.val < 0
          THEN BSearch(a, pivot, left, mid)
          ELSE BSearch(a, pivot, mid + 1, right)

RECURSIVE BinaryInsertionSort(_, _)
BinaryInsertionSort(a, start) ==
  IF start > Len(a) THEN Returns(a)
  ELSE LET pivot == a[start]
           pos == BSearch(a, pivot, 1, start)
           moved == SubSeq(a, 1, pos.val - 1) \o <<pivot>> \o
                    SubSeq(a, pos.val, start - 1) \o
                    SubSeq(a, start + 1, Len(a))
       IN IF pos.threw THEN Throws
          ELSE BinaryInsertionSort(moved, start + 1)

ArraySort(a) ==
  IF Len(a) < 2 THEN Returns(a)
  ELSE LET first == SortCompare(a[2], a[1])
           desc == first.val < 0
           n == RunEnd(a, 3, desc)
           run == IF desc
                  THEN Reverse(SubSeq(a, 1, n.val)) \o
                       SubSeq(a, n.val + 1, Len(a))
                  ELSE a
       IN IF first.threw \/ n.threw THEN Throws
          ELSE BinaryInsertionSort(run, n.val + 1)

\* the cache assigned instead of extended
store_Replace(c0, e) == ArraySort(<<e>>)

\* NostrRelay.store, up to the assignment: the array _cache is given, or
\* the exception that leaves _cache as it was
store(c0, e) == ArraySort(c0 \o <<e>>)

\* Map.set / Map.delete on the registry
KeyIndex(m, uid) == {i \in 1..Len(m) : m[i].uid = uid}
MapSet(m, uid, val) ==
  LET entry == [uid |-> uid, filters |-> val.filters,
                instance |-> val.instance, sub_id |-> val.sub_id]
  IN IF KeyIndex(m, uid) # {}
     THEN [i \in 1..Len(m) |-> IF m[i].uid = uid THEN entry ELSE m[i]]
     ELSE Append(m, entry)
MapDelete(m, uid) == SelectSeq(m, LAMBDA x : x.uid # uid)
MapHas(m, uid) == KeyIndex(m, uid) # {}
MapGet(m, uid) == m[CHOOSE i \in KeyIndex(m, uid) : TRUE]

\* ClientSession.addSub / remSub, on the registry
addSub(m, c, sub_id, filters) ==
  MapSet(m, Uid(sid[c], sub_id),
         [filters |-> filters, instance |-> c, sub_id |-> sub_id])
\* the registry entry left behind
remSub_Stale(m, c, sub_id) == m
remSub(m, c, sub_id) == MapDelete(m, Uid(sid[c], sub_id))

\* new NostrRelay(port, purge_ival?), with or without a purge interval
Constructed ==
  /\ purge \in BOOLEAN
  /\ purgeTimer = FALSE
  /\ hasWss = FALSE
  /\ server = [g \in Servers |-> "none"]
  /\ clientOf = [c \in Conns |-> 0]
  /\ isClosing = FALSE
  /\ cache = <<>>
  /\ subs = <<>>
  /\ conn = 0
  /\ sess = [c \in Conns |-> "none"]
  /\ sid = [c \in Conns |-> "100001"]
  /\ ssubs = [c \in Conns |-> {}]
  /\ readyState = [c \in Conns |-> "CLOSED"]
  /\ rcv = [c \in Conns |-> FALSE]
  /\ last = [op |-> "new"]
  /\ fx = <<>>
  /\ acked = {}
  /\ ackedKept = {}
  /\ storedSince = {}
  /\ nframes = 0
  /\ nstarts = 0
  /\ closeRun = [g \in Servers |-> "none"]
  /\ closedSubs = [c \in Conns |-> {}]

Init == Constructed /\ quota = MaxFrames

(* ------------------------- relay life cycle ---------------------------- *)
Quiet(op) == /\ last' = [op |-> op]
             /\ fx' = <<>>

\* NostrRelay.start, up to the promise: a new server takes the place of
\* whatever _wss referred to; a server it replaces is not closed
Start ==
  /\ nstarts + 1 \in Servers
  /\ nstarts' = nstarts + 1
  /\ server' = [server EXCEPT ![nstarts + 1] = "starting"]
  /\ hasWss' = TRUE
  /\ isClosing' = FALSE
  /\ Quiet("start")
  /\ UNCHANGED <<nframes, purge, quota, purgeTimer, cache, subs, conn, sockVars,
                 ssubs, acked, ackedKept, storedSince, closeRun, closedSubs>>

\* the one start() of a relay that is started once
StartOnce ==
  /\ nstarts = 0
  /\ Start

\* the 'listening' callback start registered on its server: one more
\* interval is armed, none is ever cleared
Listening(g) ==
  /\ server[g] = "starting"
  /\ server' = [server EXCEPT ![g] = "listening"]
  /\ purgeTimer' = (purgeTimer \/ purge)
  /\ Quiet("listening")
  /\ UNCHANGED <<nframes, nstarts, purge, quota, hasWss, isClosing, cache, subs,
                 conn, sockVars, ssubs, acked, ackedKept, storedSince,
                 closeRun, closedSubs>>

\* a purge that keeps the first entry of the store
PurgeTick_KeepFirst ==
  /\ purgeTimer
  /\ cache' = SubSeq(cache, 1, IF Len(cache) = 0 THEN 0 ELSE 1)
  /\ ackedKept' = {}
  /\ storedSince' = {}
  /\ Quiet("purge")
  /\ UNCHANGED <<nframes, relayVars, subs, conn, sockVars, ssubs, acked,
                 closedSubs>>

\* the setInterval callback
PurgeTick ==
  /\ purgeTimer
  /\ cache' = <<>>
  /\ ackedKept' = {}
  /\ storedSince' = {}
  /\ Quiet("purge")
  /\ UNCHANGED <<nframes, relayVars, subs, conn, sockVars, ssubs, acked,
                 closedSubs>>

\* the 'connection' callback: new ClientSession, conn += 1
Accept(c, s, g) ==
  /\ server[g] = "listening"
  /\ clientOf' = [clientOf EXCEPT ![c] = g]
  /\ sess[c] = "none"
  /\ \A d \in Conns : d < c => sess[d] # "none"
  /\ sess' = [sess EXCEPT ![c] = "live"]
  /\ sid' = [sid EXCEPT ![c] = s]
  /\ ssubs' = [ssubs EXCEPT ![c] = {}]
  /\ readyState' = [readyState EXCEPT ![c] = "OPEN"]
  /\ rcv' = [rcv EXCEPT ![c] = TRUE]
  /\ conn' = conn + 1
  /\ closedSubs' = [closedSubs EXCEPT ![c] = {}]
  /\ last' = [op |-> "accept", c |-> c]
  /\ fx' = <<>>
  /\ UNCHANGED <<nframes, relayVars, cache, subs, acked, ackedKept,
                 storedSince>>

Receiving(c) ==
  /\ sess[c] = "live"
  /\ rcv[c]
  /\ nframes < quota
  /\ nframes' = nframes + 1

\* the peer's close frame arrives: the socket stops reading and, if it was
\* OPEN, starts its own closing handshake
PeerCloseFrame(c) ==
  /\ Receiving(c)
  /\ rcv' = [rcv EXCEPT ![c] = FALSE]
  /\ readyState' = [readyState EXCEPT ![c] = "CLOSING"]
  /\ last' = [op |-> "closeframe", c |-> c]
  /\ fx' = <<>>
  /\ UNCHANGED <<relayVars, cache, subs, conn, sess, sid, ssubs, clientOf,
                 acked, ackedKept, storedSince, closedSubs>>

\* a teardown that removes no subscription
RemAll_None(m, c, ids) == m

\* the remSub loop of _cleanup over this._subs
RECURSIVE RemAll(_, _, _)
RemAll(m, c, ids) ==
  IF ids = {} THEN m
  ELSE LET x == CHOOSE x \in ids : TRUE
       IN RemAll(remSub(m, c, x), c, ids \ {x})

\* a teardown that leaves the counter alone
Cleanup_KeepConn(c) ==
  /\ sess[c] = "live"
  /\ subs' = RemAll(subs, c, ssubs[c])
  /\ ssubs' = [ssubs EXCEPT ![c] = {}]
  /\ readyState' = [readyState EXCEPT ![c] = "CLOSED"]
  /\ rcv' = [rcv EXCEPT ![c] = FALSE]
  /\ sess' = [sess EXCEPT ![c] = "gone"]
  /\ clientOf' = [clientOf EXCEPT ![c] = 0]
  /\ closedSubs' = [closedSubs EXCEPT ![c] = {}]
  /\ last' = [op |-> "cleanup", c |-> c]
  /\ fx' = <<>>
  /\ UNCHANGED <<nframes, relayVars, cache, sid, acked, ackedKept,
                 storedSince, conn>>

\* the socket's 'close' event (readyState is CLOSED by then): _cleanup
Cleanup(c) ==
  /\ sess[c] = "live"
  /\ subs' = RemAll(subs, c, ssubs[c])
  /\ ssubs' = [ssubs EXCEPT ![c] = {}]
  /\ readyState' = [readyState EXCEPT ![c] = "CLOSED"]
  /\ rcv' = [rcv EXCEPT ![c] = FALSE]
  /\ conn' = conn - 1
  /\ sess' = [sess EXCEPT ![c] = "gone"]
  /\ clientOf' = [clientOf EXCEPT ![c] = 0]
  /\ closedSubs' = [closedSubs EXCEPT ![c] = {}]
  /\ last' = [op |-> "cleanup", c |-> c]
  /\ fx' = <<>>
  /\ UNCHANGED <<nframes, relayVars, cache, sid, acked, ackedKept,
                 storedSince>>

\* client.close(1000, ...) on every socket of the clients of _wss
ClientsClosed ==
  [c \in Conns |->
     IF clientOf[c] = nstarts /\ readyState[c] = "OPEN"
     THEN "CLOSING" ELSE readyState[c]]

\* a close() without the _isClosing test that clears the state whether or
\* not a server exists
Close_NoGuard ==
  /\ isClosing' = TRUE
  /\ subs' = <<>>
  /\ cache' = <<>>
  /\ ackedKept' = {}
  /\ storedSince' = {}
  /\ IF hasWss
     THEN /\ readyState' = ClientsClosed
          /\ hasWss' = FALSE
          /\ server' = [server EXCEPT ![nstarts] = "closed"]
          /\ closeRun' = [closeRun EXCEPT ![nstarts] = "waiting"]
          /\ last' = [op |-> "close", already |-> isClosing,
                      resolved |-> FALSE]
     ELSE /\ UNCHANGED <<hasWss, server, readyState, closeRun>>
          /\ last' = [op |-> "close", already |-> isClosing,
                      resolved |-> TRUE]
  /\ fx' = <<>>
  /\ UNCHANGED <<nframes, nstarts, purge, quota, purgeTimer, conn, sess, sid, ssubs,
                 rcv, clientOf, acked, closedSubs>>

\* NostrRelay.close, up to the promise: resolved at once when the relay is
\* already closing or has no server, else left to the timer and the
\* listener
Close ==
  /\ IF isClosing
     THEN /\ UNCHANGED <<isClosing, hasWss, server, readyState, subs, cache,
                         ackedKept, storedSince, closeRun>>
          /\ last' = [op |-> "close", already |-> TRUE, resolved |-> TRUE]
     ELSE /\ isClosing' = TRUE
          /\ IF hasWss
             THEN /\ readyState' = ClientsClosed
                  /\ subs' = <<>>
                  /\ cache' = <<>>
                  /\ ackedKept' = {}
                  /\ storedSince' = {}
                  /\ hasWss' = FALSE
                  /\ server' = [server EXCEPT ![nstarts] = "closed"]
                  /\ closeRun' = [closeRun EXCEPT ![nstarts] = "waiting"]
                  /\ last' = [op |-> "close", already |-> FALSE,
                              resolved |-> FALSE]
             ELSE /\ UNCHANGED <<hasWss, server, readyState, subs, cache,
                                 ackedKept, storedSince, closeRun>>
                  /\ last' = [op |-> "close", already |-> FALSE,
                              resolved |-> TRUE]
  /\ fx' = <<>>
  /\ UNCHANGED <<nframes, nstarts, purge, quota, purgeTimer, conn, sess, sid, ssubs,
                 rcv, clientOf, acked, closedSubs>>

\* the timer firing without resolving the promise
CloseTimeout_NoResolve(g) ==
  /\ closeRun[g] = "waiting"
  /\ hasWss' = FALSE
  /\ last' = [op |-> "closetimeout", g |-> g]
  /\ fx' = <<>>
  /\ UNCHANGED <<nframes, nstarts, purge, quota, purgeTimer, server, isClosing,
                 cache, subs, conn, sockVars, ssubs, acked, ackedKept,
                 storedSince, closedSubs, closeRun>>

\* the 500 ms timer of close: _wss = null, whatever it refers to by then,
\* and resolve
CloseTimeout(g) ==
  /\ closeRun[g] = "waiting"
  /\ closeRun' = [closeRun EXCEPT ![g] = "resolved"]
  /\ hasWss' = FALSE
  /\ last' = [op |-> "closetimeout", g |-> g]
  /\ fx' = <<>>
  /\ UNCHANGED <<nframes, nstarts, purge, quota, purgeTimer, server, isClosing,
                 cache, subs, conn, sockVars, ssubs, acked, ackedKept,
                 storedSince, closedSubs>>

\* the callback of wss.close: clearTimeout, resolve.  It may run while
\* sockets the server accepted have not reported closed yet; after the
\* timer has fired the callback finds nothing left to do.
ListenerClosed(g) ==
  /\ closeRun[g] = "waiting"
  /\ closeRun' = [closeRun EXCEPT ![g] = "resolved"]
  /\ last' = [op |-> "listenerclosed", g |-> g]
  /\ fx' = <<>>
  /\ UNCHANGED <<nframes, nstarts, purge, quota, purgeTimer, hasWss, server,
                 isClosing, cache, subs, conn, sockVars, ssubs, acked,
                 ackedKept, storedSince, closedSubs>>

(* --------------------------- message handlers -------------------------- *)

\* the live fan-out of _onevent: every registry entry, every filter of it
RECURSIVE NotifyFilters(_, _, _, _)
NotifyFilters(entry, e, i, out) ==
  IF i > Len(entry.filters) THEN out
  ELSE NotifyFilters(entry, e, i + 1,
         IF IsNull(entry.filters[i]) THEN out \o ThrowFx
         ELSE IF match_filter(e, entry.filters[i])
         THEN out \o send(entry.instance, EventFrame(entry.sub_id, e))
         ELSE out)

\* the fan-out stopping at the first subscription it served
RECURSIVE Notify_FirstOnly(_, _, _, _)
Notify_FirstOnly(m, e, i, out) ==
  IF i > Len(m) \/ out # <<>> THEN out
  ELSE Notify_FirstOnly(m, e, i + 1, NotifyFilters(m[i], e, 1, out))

RECURSIVE Notify(_, _, _, _)
Notify(m, e, i, out) ==
  IF i > Len(m) THEN out
  ELSE Notify(m, e, i + 1, NotifyFilters(m[i], e, 1, out))

\* the kind 24133 loop of _onevent
PTags(e) == SelectSeq(e.tags, LAMBDA tag : Len(tag) >= 1 /\ tag[1] = "p")
PFilters(f) == IF Has(f, "#p") THEN f["#p"] ELSE <<>>
PTagHit(e, f) ==
  \E i \in 1..Len(PTags(e)) :
    Len(PTags(e)[i]) >= 2 /\ Includes(PFilters(f), PTags(e)[i][2])

RECURSIVE TunnelFilters(_, _, _)
TunnelFilters(entry, e, i) ==
  IF i > Len(entry.filters) THEN <<>>
  ELSE LET f == entry.filters[i]
       IN IF IsNull(f) THEN ThrowFx
          ELSE IF Has(f, "kinds") /\ Includes(f.kinds, TunnelKind)
          THEN IF Len(PFilters(f)) > 0 /\ ~PTagHit(e, f)
               THEN TunnelFilters(entry, e, i + 1)
               ELSE send(entry.instance, EventFrame(SplitSubId(entry.uid), e))
          ELSE TunnelFilters(entry, e, i + 1)

RECURSIVE TunnelNotify(_, _, _, _)
TunnelNotify(m, e, i, out) ==
  IF i > Len(m) THEN out
  ELSE TunnelNotify(m, e, i + 1, out \o TunnelFilters(m[i], e, 1))

\* this.relay.store(event): the call, and its exception if it throws
StoreFx(e) ==
  << [op |-> "store", event |-> e] >> \o
  (IF store(cache, e).threw THEN ThrowFx ELSE <<>>)

\* _onevent, kind 24133: store, notify, then OK
TunnelFx(c, e) ==
  StoreFx(e) \o TunnelNotify(subs, e, 1, <<>>) \o send(c, OkFrame(e, TRUE, ""))

\* _onevent, validation failed
RejectedFx(c, e) == send(c, OkFrame(e, FALSE, "event failed validation"))

\* the acknowledgement written last
AcceptedFx_OkLast(c, e) ==
  StoreFx(e) \o Notify(subs, e, 1, <<>>) \o send(c, OkFrame(e, TRUE, ""))

\* _onevent, validation passed: OK, store, notify
AcceptedFx(c, e) ==
  send(c, OkFrame(e, TRUE, "")) \o StoreFx(e) \o Notify(subs, e, 1, <<>>)

\* _onevent, up to its catch
OnEventFx(c, e) ==
  IF IsNull(e) THEN ThrowFx
  ELSE IF e.kind = TunnelKind THEN TunnelFx(c, e)
  ELSE IF verify_event(e).threw THEN ThrowFx
  ELSE IF ~verify_event(e).val THEN RejectedFx(c, e)
  ELSE AcceptedFx(c, e)

\* the events the store() calls of a callback were given, in call order
RECURSIVE Stored(_)
Stored(effects) ==
  IF effects = <<>> THEN <<>>
  ELSE (IF Head(effects).op = "store" THEN <<Head(effects).event>> ELSE <<>>)
       \o Stored(Tail(effects))

\* _cache after these calls: a call that throws assigns nothing
RECURSIVE StoreAll(_, _)
StoreAll(c0, es) ==
  IF es = <<>> THEN c0
  ELSE IF store(c0, Head(es)).threw THEN c0
  ELSE StoreAll(store(c0, Head(es)).val, Tail(es))

\* the events a callback acknowledged with OK true
OkTrue(effects) ==
  {effects[i].frame.id : i \in {j \in 1..Len(effects) :
      /\ effects[j].op = "send"
      /\ effects[j].frame.verb = "OK"
      /\ effects[j].frame.ok}}

\* _handler on ["EVENT", e], then _onevent
HandleEvent(c, e) ==
  /\ Receiving(c)
  /\ last' = [op |-> "EVENT", c |-> c, event |-> e,
              threw |-> Thrown(OnEventFx(c, e))]
  /\ fx' = Caught(OnEventFx(c, e))
  /\ Len(StoreAll(cache, Stored(fx'))) <= MaxCache
  /\ cache' = StoreAll(cache, Stored(fx'))
  /\ acked' = acked \cup {x \in {e} : OkTrue(fx') # {} /\ x.id \in OkTrue(fx')}
  /\ ackedKept' =
       ackedKept \cup {x \in {e} : OkTrue(fx') # {} /\ x.id \in OkTrue(fx')}
  /\ storedSince' =
       storedSince \cup
         {x \in {Stored(fx')[i] : i \in 1..Len(Stored(fx'))} :
            ~store(cache, x).threw}
  /\ UNCHANGED <<relayVars, subs, conn, sockVars, ssubs, closedSubs>>

\* the replay without the filter test
RECURSIVE ReplayFilter_Unfiltered(_, _, _, _, _, _)
ReplayFilter_Unfiltered(c, sub_id, f, i, limited, limitCount) ==
  IF i > Len(cache) THEN <<>>
  ELSE IF limited /\ limitCount <= 0 THEN <<>>
  ELSE send(c, EventFrame(sub_id, cache[i])) \o
       ReplayFilter_Unfiltered(c, sub_id, f, i + 1, limited, limitCount - 1)

\* the limit test off by one
RECURSIVE ReplayFilter_OffByOne(_, _, _, _, _, _)
ReplayFilter_OffByOne(c, sub_id, f, i, limited, limitCount) ==
  IF i > Len(cache) THEN <<>>
  ELSE IF limited /\ limitCount < 0 THEN <<>>
  ELSE IF match_filter(cache[i], f)
       THEN send(c, EventFrame(sub_id, cache[i])) \o
            ReplayFilter_OffByOne(c, sub_id, f, i + 1, limited, limitCount - 1)
       ELSE ReplayFilter_OffByOne(c, sub_id, f, i + 1, limited, limitCount)

\* the replay loops of _onreq
RECURSIVE ReplayFilter(_, _, _, _, _, _)
ReplayFilter(c, sub_id, f, i, limited, limitCount) ==
  IF i > Len(cache) THEN <<>>
  ELSE IF limited /\ limitCount <= 0 THEN <<>>
  ELSE IF match_filter(cache[i], f)
       THEN send(c, EventFrame(sub_id, cache[i])) \o
            ReplayFilter(c, sub_id, f, i + 1, limited, limitCount - 1)
       ELSE ReplayFilter(c, sub_id, f, i + 1, limited, limitCount)

\* a filter without limit replayed as if it had limit 1
RECURSIVE Replay_DefaultLimit(_, _, _, _)
Replay_DefaultLimit(c, sub_id, filters, k) ==
  IF k > Len(filters) THEN <<>>
  ELSE ReplayFilter(c, sub_id, filters[k], 1, TRUE,
                    IF Has(filters[k], "limit") THEN filters[k].limit ELSE 1)
       \o Replay_DefaultLimit(c, sub_id, filters, k + 1)

RECURSIVE Replay(_, _, _, _)
Replay(c, sub_id, filters, k) ==
  IF k > Len(filters) THEN <<>>
  ELSE IF IsNull(filters[k]) THEN ThrowFx
  ELSE ReplayFilter(c, sub_id, filters[k], 1, Has(filters[k], "limit"),
                    IF Has(filters[k], "limit") THEN filters[k].limit ELSE 0)
       \o Replay(c, sub_id, filters, k + 1)

\* EOSE written also for a request without filters
OnReqFx_AlwaysEose(c, sub_id, filters) ==
  Replay(c, sub_id, filters, 1) \o send(c, EoseFrame(sub_id))

\* EOSE written before the replay
OnReqFx_EoseFirst(c, sub_id, filters) ==
  IF Len(filters) = 0 THEN <<>>
  ELSE send(c, EoseFrame(sub_id)) \o Replay(c, sub_id, filters, 1)

\* filters.some(f => f.kinds?.includes(24133)) meets a null before a
\* filter that names the kind
RECURSIVE SomeThrows(_, _)
SomeThrows(filters, k) ==
  IF k > Len(filters) THEN FALSE
  ELSE IF IsNull(filters[k]) THEN TRUE
  ELSE IF Has(filters[k], "kinds") /\ Includes(filters[k].kinds, TunnelKind)
       THEN FALSE
  ELSE SomeThrows(filters, k + 1)

\* _onreq: what it writes
OnReqFx(c, sub_id, filters) ==
  IF Len(filters) = 0 THEN <<>>
  ELSE IF SomeThrows(filters, 1) THEN ThrowFx
  ELSE Replay(c, sub_id, filters, 1) \o send(c, EoseFrame(sub_id))

\* the catch of _handler around the dispatch
HandlerCatch(c, effects) ==
  IF Thrown(effects)
  THEN Caught(effects) \o send(c, NoticeFrame(<<"", "Unable to parse message">>))
  ELSE effects

\* _onreq: a request without filters returns before addSub
OnReqRegisters(filters) == Len(filters) # 0

\* _handler on ["REQ", sub_id, ...filters], then _onreq
HandleReq(c, sub_id, filters) ==
  /\ Receiving(c)
  /\ last' = [op |-> "REQ", c |-> c, sub |-> sub_id, filters |-> filters,
              reopens |-> sub_id \in closedSubs[c],
              threw |-> Thrown(OnReqFx(c, sub_id, filters))]
  /\ fx' = HandlerCatch(c, OnReqFx(c, sub_id, filters))
  /\ IF OnReqRegisters(filters)
     THEN /\ subs' = addSub(subs, c, sub_id, filters)
          /\ ssubs' = [ssubs EXCEPT ![c] = @ \cup {sub_id}]
          /\ closedSubs' = [closedSubs EXCEPT ![c] = @ \ {sub_id}]
     ELSE UNCHANGED <<subs, ssubs, closedSubs>>
  /\ UNCHANGED <<relayVars, cache, conn, sockVars, acked, ackedKept,
                 storedSince>>

\* _handler on ["CLOSE", sub_id], then _onclose
HandleClose(c, sub_id) ==
  /\ Receiving(c)
  /\ last' = [op |-> "CLOSE", c |-> c, sub |-> sub_id]
  /\ subs' = remSub(subs, c, sub_id)
  /\ ssubs' = [ssubs EXCEPT ![c] = @ \ {sub_id}]
  /\ closedSubs' = [closedSubs EXCEPT ![c] =
                      IF sub_id \in ssubs[c] THEN @ \cup {sub_id} ELSE @]
  /\ fx' = <<>>
  /\ UNCHANGED <<relayVars, cache, conn, sockVars, acked, ackedKept,
                 storedSince>>

\* the frame goes on to _onevent, _onreq or _onclose
Dispatched(m) ==
  /\ m.parses /\ m.isArray /\ Len(m.elems) > 0
  /\ \/ m.elems[1] = "EVENT" /\ Len(m.elems) = 2
     \/ m.elems[1] = "REQ" /\ Len(m.elems) >= 2
     \/ m.elems[1] = "CLOSE" /\ Len(m.elems) = 2

\* wss.clients.forEach: client.send(message) to every other OPEN socket
RECURSIVE Broadcast(_, _, _)
Broadcast(c, text, d) ==
  IF d > Cardinality(Conns) THEN <<>>
  ELSE (IF d # c /\ clientOf[d] = nstarts /\ readyState[d] = "OPEN"
        THEN << [op |-> "send", to |-> d, frame |-> RawFrame(text)] >>
        ELSE <<>>) \o Broadcast(c, text, d + 1)

\* a frame of a known verb and the wrong length sent on like an unknown one
HandlerFx_ArityIgnored(c, m) ==
  IF ~m.parses
  THEN send(c, NoticeFrame(<<"", "Unable to parse message">>))
  ELSE IF m.isArray /\ Len(m.elems) > 0
  THEN IF wss = "null" THEN <<>> ELSE Broadcast(c, m.text, 1)
  ELSE send(c, NoticeFrame(<<"", "Unable to handle message">>))

\* _handler on a frame it does not dispatch
HandlerFx(c, m) ==
  IF ~m.parses
  THEN send(c, NoticeFrame(<<"", "Unable to parse message">>))
  ELSE IF m.isArray /\ Len(m.elems) > 0
  THEN IF m.elems[1] \in {"EVENT", "REQ", "CLOSE"}
       THEN IF m.elems[1] = "EVENT" /\ Len(m.elems) # 2
            THEN send(c, NoticeFrame(<<"invalid: EVENT message missing params">>))
            ELSE IF m.elems[1] = "REQ" /\ Len(m.elems) < 2
            THEN send(c, NoticeFrame(<<"invalid: REQ message missing params">>))
            ELSE IF m.elems[1] = "CLOSE" /\ Len(m.elems) # 2
            THEN send(c, NoticeFrame(<<"invalid: CLOSE message missing params">>))
            ELSE <<>>
       \* this.relay.wss throws when _wss is null; caught, nothing written
       ELSE IF wss = "null" THEN <<>> ELSE Broadcast(c, m.text, 1)
  ELSE send(c, NoticeFrame(<<"", "Unable to handle message">>))

HandleOther(c, m) ==
  /\ Receiving(c)
  /\ ~Dispatched(m)
  /\ last' = [op |-> "frame", c |-> c, m |-> m]
  /\ fx' = HandlerFx(c, m)
  /\ UNCHANGED <<relayVars, cache, subs, conn, sockVars, ssubs, acked,
                 ackedKept, storedSince, closedSubs>>

\* relay.store(event) called by the program that holds the relay; the call
\* counts among the inputs of the run
DirectStore(e) ==
  /\ Len(cache) < MaxStore
  /\ nframes < quota
  /\ nframes' = nframes + 1
  /\ cache' = StoreAll(cache, <<e>>)
  /\ last' = [op |-> "store", event |-> e, threw |-> store(cache, e).threw]
  /\ fx' = <<>>
  /\ storedSince' = storedSince \cup {x \in {e} : ~store(cache, x).threw}
  /\ UNCHANGED <<relayVars, subs, conn, sockVars, ssubs, acked,
                 ackedKept, closedSubs>>

(* ------- a relay started once, with events and filters of the schemas --- *)
Next ==
  \/ StartOnce
  \/ \E g \in Servers : Listening(g)
  \/ PurgeTick
  \/ Close
  \/ \E g \in Servers : CloseTimeout(g)
  \/ \E g \in Servers : ListenerClosed(g)
  \/ \E c \in Conns : \E s \in SidDraws(c), g \in Servers :
       Accept(c, s, g)
  \/ \E c \in Conns : PeerCloseFrame(c)
  \/ \E c \in Conns : Cleanup(c)
  \/ \E c \in Conns, e \in Events : HandleEvent(c, e)
  \/ \E c \in Conns : \E s \in SubIdsOf(c), fl \in FilterLists : HandleReq(c, s, fl)
  \/ \E c \in Conns : \E s \in SubIdsOf(c) : HandleClose(c, s)
  \/ \E e \in {EvA, EvB} : DirectStore(e)

Spec == Init /\ [][Next]_vars

(* ------------------ the life cycle without the frames ------------------ *)
\* start(), close() and their callbacks, connections coming and going
LifeNext ==
  \/ Start
  \/ \E g \in Servers : Listening(g)
  \/ PurgeTick
  \/ Close
  \/ \E g \in Servers : CloseTimeout(g)
  \/ \E g \in Servers : ListenerClosed(g)
  \/ \E c \in Conns : \E s \in SidDraws(c), g \in Servers :
       Accept(c, s, g)
  \/ \E c \in Conns : PeerCloseFrame(c)
  \/ \E c \in Conns : Cleanup(c)
  \/ \E e \in {EvA, EvB} : DirectStore(e)

\* a timer that is armed and not cleared fires
LifeSpec ==
  /\ Init
  /\ [][LifeNext]_vars
  /\ \A g \in Servers : WF_vars(CloseTimeout(g))

(* ----- a relay started once, frames of every shape, ill-formed too ----- *)
FrameEvents == {EvA, EvAts, EvMalSig, EvTun, EvNull}
FrameFilterLists == { <<NoFilter>>, <<NullFilter>>, <<FTunP2, NullFilter>> }
FrameSubIds == { <<"s">> }

FrameNext ==
  \/ StartOnce
  \/ \E g \in Servers : Listening(g)
  \/ PurgeTick
  \/ Close
  \/ \E g \in Servers : CloseTimeout(g)
  \/ \E g \in Servers : ListenerClosed(g)
  \/ \E c \in Conns : \E s \in SidDraws(c), g \in Servers :
       Accept(c, s, g)
  \/ \E c \in Conns : PeerCloseFrame(c)
  \/ \E c \in Conns : Cleanup(c)
  \/ \E c \in Conns, e \in FrameEvents : HandleEvent(c, e)
  \/ \E c \in Conns, s \in FrameSubIds, fl \in FrameFilterLists :
       HandleReq(c, s, fl)
  \/ \E c \in Conns, s \in FrameSubIds : HandleClose(c, s)
  \/ \E c \in Conns, m \in OtherFrames : HandleOther(c, m)
  \/ \E e \in {EvA, EvB, EvBadId, EvAts} : DirectStore(e)

FrameSpec == Init /\ [][FrameNext]_vars

(* ------------- start() and close() in any order, with frames ----------- *)
\* the life cycle with start() called at any time, and frames of each verb
RestartNext ==
  \/ LifeNext
  \/ \E c \in Conns : HandleEvent(c, EvA)
  \/ \E c \in Conns, s \in FrameSubIds : HandleReq(c, s, <<NoFilter>>)
  \/ \E c \in Conns, s \in FrameSubIds : HandleClose(c, s)
  \/ \E c \in Conns, m \in OtherFrames : HandleOther(c, m)

RestartSpec == Init /\ [][RestartNext]_vars

(* ------ a subscription id requested, closed and requested again ------- *)
\* a relay without purge interval, started once and followed for two more
\* inputs, so that a store() call and the REQ of another subscription fit
\* beside REQ, CLOSE, REQ
ReopenFrames == MaxFrames + 2
ReopenInit == Constructed /\ ~purge /\ quota = ReopenFrames

ReopenNext ==
  \/ StartOnce
  \/ \E g \in Servers : Listening(g)
  \/ \E c \in Conns : \E s \in SidDraws(c), g \in Servers :
       Accept(c, s, g)
  \/ \E c \in Conns, e \in {EvA, EvB} : HandleEvent(c, e)
  \/ \E c \in Conns : \E s \in SubIdsOf(c), fl \in FilterLists :
       HandleReq(c, s, fl)
  \/ \E c \in Conns : \E s \in SubIdsOf(c) : HandleClose(c, s)
  \/ \E e \in {EvA, EvB} : DirectStore(e)

ReopenSpec == ReopenInit /\ [][ReopenNext]_vars

(* ------------------- the store primitive on its own -------------------- *)
\* the events of the frames and an object that is no plain event
StoreEvents == Events \cup {EvAts}

StoreNext == \E e \in StoreEvents : DirectStore(e)

StoreSpec == Init /\ [][StoreNext]_vars

(* ---------------------- match_filter on its own ----------------------- *)
MatchTags ==
  { <<>>,
    << <<"e", "X">> >>,
    << <<"e", "Y">> >>,
    << <<"p", "X">> >>,
    << <<"t", "x">> >>,
    << <<"", "X">> >>,
    << <<"p", "P2">>, <<"e", "Y", "X">>, <<"t", "x">> >> }

MatchEvents ==
  { MkEvent(pk, t, k, tags, "m") :
      pk \in {"P1", "P2"}, t \in 1..MaxTime, k \in {1, TunnelKind},
      tags \in MatchTags }

IdsOpt == { NoFilter, [ids |-> <<>>],
            [ids |-> << MkEvent("P2", 2, 1, <<>>, "m").id,
                        MkEvent("P1", 1, 1, << <<"e", "X">> >>, "m").id >>] }
SinceOpt == { NoFilter, [since |-> 2] }
UntilOpt == { NoFilter, [until |-> 2] }
AuthorsOpt == { NoFilter, [authors |-> <<"P2">>] }
KindsOpt == { NoFilter, [kinds |-> <<1>>] }
LimitOpt == { NoFilter, [limit |-> 0] }
ETagOpt == { NoFilter, "#e" :> <<>>, "#e" :> <<"X">>, "#e" :> <<"Z", "X">> }
PTagOpt == { NoFilter, "#p" :> <<"P2">> }
\* a third tag name, a key of two characters after the '#', a key of none
OtherTagOpt ==
  { NoFilter, "#t" :> <<"x">>, "#ex" :> <<"X">>, "#" :> <<"X">> }

MatchFilters ==
  { i @@ s @@ u @@ a @@ k @@ l @@ te @@ tp @@ to :
      i \in IdsOpt, s \in SinceOpt, u \in UntilOpt, a \in AuthorsOpt,
      k \in KindsOpt, l \in LimitOpt, te \in ETagOpt, tp \in PTagOpt,
      to \in OtherTagOpt }

\* a relay as constructed, with an event and a filter at hand
MatchInit ==
  /\ purge = FALSE
  /\ quota = MaxFrames
  /\ purgeTimer = FALSE
  /\ hasWss = FALSE
  /\ server = [g \in Servers |-> "none"]
  /\ clientOf = [c \in Conns |-> 0]
  /\ isClosing = FALSE
  /\ cache = <<>>
  /\ subs = <<>>
  /\ conn = 0
  /\ sess = [c \in Conns |-> "none"]
  /\ sid = [c \in Conns |-> "100001"]
  /\ ssubs = [c \in Conns |-> {}]
  /\ readyState = [c \in Conns |-> "CLOSED"]
  /\ rcv = [c \in Conns |-> FALSE]
  /\ last \in { [op |-> "args", event |-> e, filter |-> f] :
                  e \in MatchEvents, f \in MatchFilters }
  /\ fx = <<>>
  /\ acked = {}
  /\ ackedKept = {}
  /\ storedSince = {}
  /\ nframes = 0
  /\ nstarts = 0
  /\ closeRun = [g \in Servers |-> "none"]
  /\ closedSubs = [c \in Conns |-> {}]

MatchCall ==
  /\ last.op = "args"
  /\ last' = [op |-> "match_filter", event |-> last.event,
              filter |-> last.filter,
              result |-> match_filter(last.event, last.filter)]
  /\ UNCHANGED <<fx, cache, nframes, relayVars, subs, conn, sockVars, ssubs,
                 acked, ackedKept, storedSince, closedSubs>>

MatchNext == MatchCall

MatchSpec == MatchInit /\ [][MatchNext]_vars

(* ======================= properties of the relay ======================= *)
\* the tag-filter keys of the filter grammar: '#' followed by the one
\* character that is the tag's name
GrammarTagKeys(f) ==
  {k \in DOMAIN f : Len(KeyChars[k]) = 2 /\ KeyChars[k][1] = "#"}
GrammarTagName(k) == KeyChars[k][2]
\* a filter of the grammar: the six fields and tag-filter keys, nothing else
InGrammar(f) ==
  DOMAIN f \subseteq
    {"ids", "authors", "kinds", "since", "until", "limit"}
      \cup GrammarTagKeys(f)

\* what the filter grammar asks of an event (ids, since, until, authors,
\* kinds, then every tag key with terms)
Wants(f, e) ==
  /\ Has(f, "ids") => \E i \in 1..Len(f.ids) : f.ids[i] = e.id
  /\ Has(f, "since") => e.created_at >= f.since
  /\ Has(f, "until") => e.created_at <= f.until
  /\ Has(f, "authors") => \E i \in 1..Len(f.authors) : f.authors[i] = e.pubkey
  /\ Has(f, "kinds") => \E i \in 1..Len(f.kinds) : f.kinds[i] = e.kind
  /\ \A k \in GrammarTagKeys(f) :
       Len(f[k]) > 0 =>
         \E j \in 1..Len(e.tags) :
           /\ e.tags[j][1] = GrammarTagName(k)
           /\ \E p \in 2..Len(e.tags[j]), t \in 1..Len(f[k]) :
                e.tags[j][p] = f[k][t]

AnyWants(filters, e) == \E k \in 1..Len(filters) : Wants(filters[k], e)

IdIsHash(e) == e.id = Sha256Hex(Serialize(e))
SigVerifies(e) == e.sig = Sign(e.pubkey, e.id)
FailsValidation(e) == ~IdIsHash(e) \/ ~SigVerifies(e)

IsSend(x) == x.op = "send"
IsEventSend(x) == x.op = "send" /\ x.frame.verb = "EVENT"
IsStore(x) == x.op = "store"

\* a 'message' callback ran in this step
Handled(op) == nframes' = nframes + 1 /\ last'.op = op

\* C1: an EVENT frame whose event is not of kind 24133 and fails validation
\* (id is not the hash, or the signature does not verify) is answered with
\* OK[id, false, reason] on the publisher's open socket and with nothing
\* else: the store is unchanged and no EVENT frame is written to anyone.
C1_InvalidEventRejected ==
  [][ (/\ Handled("EVENT")
       /\ ~IsNull(last'.event)
       /\ last'.event.kind # TunnelKind
       /\ FailsValidation(last'.event))
      => /\ cache' = cache
         /\ \A i \in 1..Len(fx') : ~IsStore(fx'[i]) /\ ~IsEventSend(fx'[i])
         /\ readyState[last'.c] = "OPEN" =>
              /\ Len(fx') = 1
              /\ fx'[1].to = last'.c
              /\ fx'[1].frame.verb = "OK"
              /\ fx'[1].frame.id = last'.event.id
              /\ fx'[1].frame.ok = FALSE ]_vars

\* C2: for an EVENT frame whose event the relay validates successfully, the
\* relay first writes OK[id, true, ""] to the publisher, then stores the
\* event, then notifies: the OK precedes every live EVENT frame and the
\* store() call precedes the first of them.
C2_OkStoreNotifyOrder ==
  [][ (Handled("EVENT") /\ last'.event.kind # TunnelKind
         /\ ~FailsValidation(last'.event))
      => LET open == readyState[last'.c] = "OPEN"
             k == IF open THEN 1 ELSE 0
         IN /\ Len(fx') >= k + 1
            /\ open => /\ fx'[1].op = "send"
                       /\ fx'[1].to = last'.c
                       /\ fx'[1].frame = OkFrame(last'.event, TRUE, "")
            /\ fx'[k + 1] = [op |-> "store", event |-> last'.event]
            /\ \A i \in (k + 2)..Len(fx') :
                 IsEventSend(fx'[i]) /\ fx'[i].frame.event = last'.event
            /\ \E i \in 1..Len(cache') : cache'[i] = last'.event ]_vars

\* a publisher with a matching subscription of its own got OK, then EVENT
C2_Witness ==
  /\ last.op = "EVENT"
  /\ ~FailsValidation(last.event) /\ last.event.kind # TunnelKind
  /\ Len(fx) >= 3
  /\ IsSend(fx[1]) /\ fx[1].frame.verb = "OK" /\ fx[1].frame.ok
  /\ IsStore(fx[2])
  /\ IsEventSend(fx[3]) /\ fx[3].to = last.c

\* C3: when a validated event is published, a live EVENT[subId, event] frame
\* is written for a subscription exactly when the subscription is in the
\* registry, one of its filters wants the event and its socket is open;
\* this holds on every connection, the publisher's included, and nobody
\* else gets an EVENT frame.
C3_LiveDeliveryIff ==
  [][ (Handled("EVENT") /\ last'.event.kind # TunnelKind
         /\ ~FailsValidation(last'.event))
      => /\ \A i \in 1..Len(subs) :
              (\E j \in 1..Len(fx') :
                  /\ IsEventSend(fx'[j])
                  /\ fx'[j].to = subs[i].instance
                  /\ fx'[j].frame = EventFrame(subs[i].sub_id, last'.event))
              <=> (/\ AnyWants(subs[i].filters, last'.event)
                   /\ readyState[subs[i].instance] = "OPEN")
         /\ \A j \in 1..Len(fx') :
              IsEventSend(fx'[j]) =>
                \E i \in 1..Len(subs) :
                  /\ fx'[j].to = subs[i].instance
                  /\ fx'[j].frame.sub = subs[i].sub_id
                  /\ AnyWants(subs[i].filters, last'.event) ]_vars

\* one publish reached the publisher's own subscription, while another
\* open connection, whose subscription does not want it, got nothing
C3_Witness ==
  /\ last.op = "EVENT"
  /\ ~FailsValidation(last.event) /\ last.event.kind # TunnelKind
  /\ \E i \in 1..Len(fx) : IsEventSend(fx[i]) /\ fx[i].to = last.c
  /\ \E i \in 1..Len(subs) :
       /\ subs[i].instance # last.c
       /\ readyState[subs[i].instance] = "OPEN"
       /\ ~AnyWants(subs[i].filters, last.event)

IsOpen(c) == sess[c] = "live" /\ readyState[c] = "OPEN"

\* C4 as stated: a kind 24133 event is stored, its frame goes to every
\* other open socket whether or not it subscribed, never to the sender,
\* and the sender then gets OK true.
C4_RawBroadcastToOthers ==
  (last.op = "EVENT" /\ last.event.kind = TunnelKind)
  => /\ \E i \in 1..Len(cache) : cache[i] = last.event
     /\ \A d \in Conns \ {last.c} :
          IsOpen(d) => \E j \in 1..Len(fx) :
                         /\ IsEventSend(fx[j])
                         /\ fx[j].to = d
                         /\ fx[j].frame.event = last.event
     /\ \A j \in 1..Len(fx) :
          (IsSend(fx[j]) /\ fx[j].to = last.c) => fx[j].frame.verb = "OK"
     /\ IsOpen(last.c) => fx[Len(fx)].frame = OkFrame(last.event, TRUE, "")

\* C5 as stated: a REQ with no filter writes no EVENT frame and one EOSE.
C5_ZeroFiltersStillEose ==
  (last.op = "REQ" /\ Len(last.filters) = 0 /\ readyState[last.c] = "OPEN")
  => fx = << [op |-> "send", to |-> last.c, frame |-> EoseFrame(last.sub)] >>

\* C5, amended: a REQ with a subscription id and no filter writes nothing,
\* neither EVENT nor EOSE, and registers no subscription.
C5_ZeroFiltersSilent ==
  [][ (Handled("REQ") /\ Len(last'.filters) = 0)
      => /\ fx' = <<>>
         /\ subs' = subs
         /\ ssubs' = ssubs
         /\ cache' = cache ]_vars

\* a REQ without filters met a store that had something to replay
C5_Witness ==
  /\ last.op = "REQ" /\ Len(last.filters) = 0
  /\ readyState[last.c] = "OPEN"
  /\ Len(cache) > 0
  /\ fx = <<>>
  /\ last.sub \notin ssubs[last.c]

\* C6: a REQ with one or more filters writes, on the requester's open
\* socket, EVENT frames of that subscription id only and then exactly one
\* EOSE[subId], which is the last frame.
C6_OneEoseAfterReplay ==
  (last.op = "REQ" /\ Len(last.filters) >= 1 /\ readyState[last.c] = "OPEN")
  => /\ Len(fx) >= 1
     /\ fx[Len(fx)] =
          [op |-> "send", to |-> last.c, frame |-> EoseFrame(last.sub)]
     /\ \A i \in 1..(Len(fx) - 1) :
          /\ IsEventSend(fx[i])
          /\ fx[i].to = last.c
          /\ fx[i].frame.sub = last.sub

\* two filters each replayed an event before the EOSE
C6_Witness ==
  /\ last.op = "REQ" /\ Len(last.filters) = 2
  /\ Len(fx) = 3
  /\ IsEventSend(fx[1]) /\ IsEventSend(fx[2])
  /\ fx[1].frame.event # fx[2].frame.event
  /\ fx[3].frame.verb = "EOSE"

\* the stored entries a filter wants, in store order
WantedSeq(f) == SelectSeq(cache, LAMBDA e : Wants(f, e))
Least(a, b) == IF a < b THEN a ELSE b
\* how many of them its limit lets through
Quota(f) ==
  IF Has(f, "limit")
  THEN Least(IF f.limit > 0 THEN f.limit ELSE 0, Len(WantedSeq(f)))
  ELSE Len(WantedSeq(f))
\* the frames of the filters before the k-th
RECURSIVE Before(_, _)
Before(filters, k) ==
  IF k <= 1 THEN 0 ELSE Before(filters, k - 1) + Quota(filters[k - 1])

ReplayedFor(k) ==
  SubSeq(fx, Before(last.filters, k) + 1, Before(last.filters, k + 1))

ReplayOf(events) ==
  [i \in 1..Len(events) |->
     [op |-> "send", to |-> last.c, frame |-> EventFrame(last.sub, events[i])]]

\* C7: a filter with limit L is replayed as the first min(L, matching)
\* wanted entries of the store, in store order (none when L <= 0), and
\* each filter of the REQ counts its own limit.
C7_LimitPerFilter ==
  (last.op = "REQ" /\ Len(last.filters) >= 1 /\ readyState[last.c] = "OPEN")
  => /\ Len(fx) = Before(last.filters, Len(last.filters) + 1) + 1
     /\ \A k \in 1..Len(last.filters) :
          Has(last.filters[k], "limit") =>
            /\ Len(ReplayedFor(k)) =
                 Least(IF last.filters[k].limit > 0
                       THEN last.filters[k].limit ELSE 0,
                       Len(WantedSeq(last.filters[k])))
            /\ ReplayedFor(k) =
                 ReplayOf(SubSeq(WantedSeq(last.filters[k]), 1,
                                 Len(ReplayedFor(k))))

\* limit 1 let through the first of two wanted entries, and the second
\* filter of the same REQ still replayed an entry of its own
C7_Witness ==
  /\ last.op = "REQ" /\ readyState[last.c] = "OPEN"
  /\ Len(last.filters) = 2
  /\ Has(last.filters[1], "limit") /\ last.filters[1].limit = 1
  /\ Len(WantedSeq(last.filters[1])) = 2
  /\ Len(ReplayedFor(1)) = 1
  /\ Len(ReplayedFor(2)) = 1

\* C8: a filter without limit is replayed as every store entry it wants,
\* one frame per entry (equal entries each have their own), in store
\* order; so the single filter {} replays the whole store, then one EOSE.
C8_NoLimitReplaysAll ==
  (last.op = "REQ" /\ Len(last.filters) >= 1 /\ readyState[last.c] = "OPEN")
  => /\ Len(fx) = Before(last.filters, Len(last.filters) + 1) + 1
     /\ \A k \in 1..Len(last.filters) :
          ~Has(last.filters[k], "limit") =>
            ReplayedFor(k) = ReplayOf(WantedSeq(last.filters[k]))
     /\ last.filters = <<NoFilter>> =>
          fx = ReplayOf(cache) \o
               << [op |-> "send", to |-> last.c,
                   frame |-> EoseFrame(last.sub)] >>

\* the filter {} replayed a store holding the same event twice
C8_Witness ==
  /\ last.op = "REQ" /\ readyState[last.c] = "OPEN"
  /\ last.filters = <<NoFilter>>
  /\ Len(cache) = 2 /\ cache[1] = cache[2]
  /\ Len(fx) = 3
  /\ IsEventSend(fx[1]) /\ IsEventSend(fx[2])
  /\ fx[1].frame.event = fx[2].frame.event

\* a filter of the list has no limit and wants the event
WantsUnlimited(filters, e) ==
  \E k \in 1..Len(filters) : ~Has(filters[k], "limit") /\ Wants(filters[k], e)

ReplaysBeforeEose(e) ==
  /\ Len(fx) >= 2
  /\ fx[Len(fx)].frame = EoseFrame(last.sub)
  /\ \E i \in 1..(Len(fx) - 1) :
       fx[i] = [op |-> "send", to |-> last.c,
                frame |-> EventFrame(last.sub, e)]

\* C9 as stated: once A got OK true, every later REQ with an unlimited
\* filter wanting A replays A before its EOSE.
C9_AckedAlwaysReplayed ==
  (last.op = "REQ" /\ readyState[last.c] = "OPEN")
  => \A a \in acked : WantsUnlimited(last.filters, a) => ReplaysBeforeEose(a)

\* C9, amended: once A got OK true, every later REQ with an unlimited
\* filter wanting A replays A before its EOSE, as long as the store has
\* not been emptied in between (by the periodic purge or by close()).
C9_AckedReplayedUntilCleared ==
  (last.op = "REQ" /\ readyState[last.c] = "OPEN")
  => \A a \in ackedKept :
       WantsUnlimited(last.filters, a) => ReplaysBeforeEose(a)

\* two acknowledged events were both replayed to a later REQ
C9_Witness ==
  /\ last.op = "REQ" /\ readyState[last.c] = "OPEN"
  /\ Cardinality(ackedKept) = 2
  /\ \A a \in ackedKept :
       WantsUnlimited(last.filters, a) /\ ReplaysBeforeEose(a)

\* C10: the subscriptions of two connections open at the same time do not
\* interfere, also under the same subscription id: a REQ, a CLOSE or the
\* teardown of one connection leaves every registry entry of another
\* connection in place and unchanged.
C10_SameIdNoInterference ==
  [][ (last'.op \in {"REQ", "CLOSE", "cleanup"})
      => \A i \in 1..Len(subs) :
           subs[i].instance # last'.c =>
             \E j \in 1..Len(subs') : subs'[j] = subs[i] ]_vars

\* the registry without the entries of subscription s of connection c
WithoutSub(m, c, s) ==
  SelectSeq(m, LAMBDA x : ~(x.instance = c /\ x.sub_id = s))

\* C11: a CLOSE frame removes the subscription of that id of the sending
\* connection and writes no frame; the entries of other ids and of other
\* connections are as before.
C11_CloseRemovesOnlyOwn ==
  [][ Handled("CLOSE")
      => /\ fx' = <<>>
         /\ subs' = WithoutSub(subs, last'.c, last'.sub)
         /\ ssubs' = [ssubs EXCEPT ![last'.c] = @ \ {last'.sub}] ]_vars

\* what a REQ on a connection not holding the id writes and registers
RECURSIVE FreshFrames(_, _)
FreshFrames(filters, k) ==
  IF k > Len(filters) THEN <<>>
  ELSE ReplayOf(SubSeq(WantedSeq(filters[k]), 1, Quota(filters[k])))
       \o FreshFrames(filters, k + 1)

FreshAnswer ==
  fx = IF readyState[last.c] = "OPEN"
       THEN FreshFrames(last.filters, 1) \o
            << [op |-> "send", to |-> last.c, frame |-> EoseFrame(last.sub)] >>
       ELSE <<>>

FreshEntry ==
  [uid |-> <<sid[last.c]>> \o last.sub, filters |-> last.filters,
   instance |-> last.c, sub_id |-> last.sub]

\* C12: REQ s F1; CLOSE s; REQ s F2 on one connection: when the second REQ
\* is handled nothing of the first subscription is left (no registry entry
\* of the connection under s, s not in the session's set), and the REQ
\* registers and replays as one on a connection that never used s: the
\* entry holds F2 only and is put where a new key goes, the session's set
\* gains s, and the frames are the replay of F2 against the store, then
\* EOSE.
C12_ReopenLikeFresh ==
  [][ (Handled("REQ") /\ last'.reopens /\ Len(last'.filters) >= 1)
      => /\ last'.sub \notin ssubs[last'.c]
         /\ WithoutSub(subs, last'.c, last'.sub) = subs
         /\ subs' = IF \E i \in 1..Len(subs) : subs[i].uid = FreshEntry'.uid
                    THEN [i \in 1..Len(subs) |->
                            IF subs[i].uid = FreshEntry'.uid
                            THEN FreshEntry' ELSE subs[i]]
                    ELSE subs \o << FreshEntry' >>
         /\ ssubs' = [ssubs EXCEPT ![last'.c] = @ \cup {last'.sub}]
         /\ FreshAnswer' ]_vars

\* a closed subscription id was requested again, with two filters, while
\* the store held events and the registry another subscription: the new
\* entry went behind that one, and events were replayed before the EOSE
C12_Witness ==
  /\ last.op = "REQ" /\ last.reopens
  /\ readyState[last.c] = "OPEN"
  /\ Len(last.filters) = 2
  /\ Len(cache) >= 1
  /\ Len(subs) >= 2 /\ subs[Len(subs)] = FreshEntry
  /\ last.sub \in ssubs[last.c]
  /\ Len(fx) >= 2
  /\ IsEventSend(fx[1])
  /\ fx[Len(fx)].frame = EoseFrame(last.sub)

\* C14: when a connection's socket closes, the registry loses the entries
\* of that connection and nothing else: the entries of other connections
\* and the store are as before.
C14_TeardownRemovesOnlyOwn ==
  [][ \A c \in Conns :
        (sess[c] = "live" /\ sess'[c] = "gone")
        => /\ subs' = SelectSeq(subs, LAMBDA x : x.instance # c)
           /\ cache' = cache ]_vars

Count(seq, x) == Cardinality({i \in 1..Len(seq) : seq[i] = x})

\* C13: store(event) validates nothing and drops nothing: for every event,
\* valid or not, in the store already or not, the store grows by exactly
\* one entry, which is the event, and every entry it held is still there
\* unmodified.
C13_StoreAddsOneKeepsAll ==
  [][ last'.op = "store"
      => /\ Len(cache') = Len(cache) + 1
         /\ \A x \in StoreEvents :
              Count(cache', x) =
                Count(cache, x) + (IF x = last'.event THEN 1 ELSE 0) ]_vars

\* C15: a close() made while the relay is marked closing resolves and
\* changes nothing: no socket is closed, nothing is cleared, the listener
\* and the pending shutdown are not touched; so close() twice leaves the
\* relay as close() once.
C15_SecondCloseNoOp ==
  [][ (last'.op = "close" /\ isClosing)
      => /\ last'.resolved
         /\ UNCHANGED <<purge, quota, purgeTimer, wss, isClosing, cache, subs, conn,
                        sess, sid, ssubs, readyState, rcv, closeRun>> ]_vars

\* close() came again while the relay was closing, a socket was still up
\* and the store held an event
C15_Witness ==
  /\ last.op = "close" /\ last.already /\ last.resolved
  /\ isClosing
  /\ cache # <<>>
  /\ \E c \in Conns : sess[c] = "live"

\* C16: every close() resolves: at once when the relay is already closing
\* or was never started, else when the listener reports closed or, if it
\* never does, when the timer fires.
C16_CloseResolves ==
  /\ []((last.op = "close" /\ ~last.resolved) => closeRun[nstarts] = "waiting")
  /\ \A g \in Servers :
       (closeRun[g] = "waiting") ~> (closeRun[g] = "resolved")

\* a shutdown resolved by the timer while a connection had not ended
C16_Witness ==
  \E g \in Servers :
    /\ last = [op |-> "closetimeout", g |-> g]
    /\ closeRun[g] = "resolved"
    /\ \E c \in Conns : sess[c] = "live"

\* C17: when the shutdown of a started relay resolves (the listener
\* reported closed or the timer fired), no socket is left open and the
\* store and the registry are empty, whatever frames were handled since
\* close() was called.
C17_ResolvedShutdownIsClean ==
  [][ \A g \in Servers :
        (closeRun[g] = "waiting" /\ closeRun'[g] = "resolved")
        => /\ cache' = <<>>
           /\ subs' = <<>>
           /\ \A c \in Conns :
                sess'[c] = "live" => readyState'[c] # "OPEN" ]_vars


MalformedFrame(m) ==
  \/ ~m.parses
  \/ /\ m.parses /\ m.isArray /\ Len(m.elems) >= 1
     /\ \/ m.elems[1] \in {"EVENT", "CLOSE"} /\ Len(m.elems) # 2
        \/ m.elems[1] = "REQ" /\ Len(m.elems) < 2

OpaqueFrame(m) ==
  /\ m.parses /\ m.isArray /\ Len(m.elems) >= 1
  /\ m.elems[1] \notin {"EVENT", "REQ", "CLOSE"}

\* C18: unparsable JSON, or an EVENT, REQ or CLOSE array of the wrong
\* length, is answered with one NOTICE to the sender (if its socket is
\* open) and with nothing else; the connection stays up and goes on
\* receiving, and the store and the registry are unchanged.
C18_MalformedGetsNotice ==
  [][ (Handled("frame") /\ MalformedFrame(last'.m))
      => /\ Len(fx') = (IF readyState[last'.c] = "OPEN" THEN 1 ELSE 0)
         /\ \A i \in 1..Len(fx') :
              /\ IsSend(fx'[i])
              /\ fx'[i].to = last'.c
              /\ fx'[i].frame.verb = "NOTICE"
         /\ UNCHANGED <<cache, subs, ssubs, sess, readyState, rcv, conn>> ]_vars

\* a frame of the wrong length got its NOTICE while a subscription of
\* another open connection was registered
C18_Witness ==
  /\ last.op = "frame" /\ MalformedFrame(last.m) /\ last.m.parses
  /\ Len(fx) = 1 /\ fx[1].to = last.c /\ fx[1].frame.verb = "NOTICE"
  /\ rcv[last.c] /\ readyState[last.c] = "OPEN"
  /\ \E i \in 1..Len(subs) : subs[i].instance # last.c /\ IsOpen(subs[i].instance)

\* C19: a non-empty array whose first element is not EVENT, REQ or CLOSE is
\* written verbatim, once, to every other connection whose socket is open
\* and to nobody else, the sender included; the store and the registry are
\* unchanged.
C19_OpaqueToOthersOnly ==
  [][ (Handled("frame") /\ OpaqueFrame(last'.m))
      => /\ \A i \in 1..Len(fx') :
              /\ IsSend(fx'[i])
              /\ fx'[i].frame = [verb |-> "RAW", text |-> last'.m.text]
              /\ fx'[i].to # last'.c
              /\ IsOpen(fx'[i].to)
         /\ \A d \in Conns \ {last'.c} :
              IsOpen(d) => Cardinality({i \in 1..Len(fx') : fx'[i].to = d}) = 1
         /\ UNCHANGED <<cache, subs, ssubs, sess, readyState, rcv, conn>> ]_vars

\* C20: a frame whose handling raises an exception leaves the session and
\* the relay as if it had not been sent: the connection stays up, and the
\* store, the registry and the session's set are as before.
C20_ThrowingFrameLeavesNoTrace ==
  [][ ((Handled("EVENT") \/ Handled("REQ")) /\ last'.threw)
      => UNCHANGED <<cache, subs, ssubs, sess, readyState, rcv, conn>> ]_vars


\* the fields of a filter other than its tag keys
FieldsAdmit(f, e) ==
  /\ ("ids" \notin DOMAIN f \/ e.id \in {f.ids[i] : i \in 1..Len(f.ids)})
  /\ ("since" \notin DOMAIN f \/ e.created_at >= f.since)
  /\ ("until" \notin DOMAIN f \/ e.created_at <= f.until)
  /\ ("authors" \notin DOMAIN f
        \/ e.pubkey \in {f.authors[i] : i \in 1..Len(f.authors)})
  /\ ("kinds" \notin DOMAIN f \/ e.kind \in {f.kinds[i] : i \in 1..Len(f.kinds)})

\* C21: for a filter of the grammar without tag-filter keys, match_filter
\* is true exactly when ids, since, until (inclusive), authors and kinds
\* each are absent or admit the event; limit plays no part, and the empty
\* filter matches every event.
C21_MatchFieldsExactly ==
  (/\ last.op = "match_filter"
   /\ InGrammar(last.filter)
   /\ GrammarTagKeys(last.filter) = {})
  => /\ last.result <=> FieldsAdmit(last.filter, last.event)
     /\ last.filter = NoFilter => last.result

\* a match at created_at = until, with limit 0 in the filter
C21_Witness ==
  /\ last.op = "match_filter" /\ last.result
  /\ DOMAIN last.filter = {"until", "authors", "kinds", "limit"}
  /\ last.event.created_at = last.filter.until
  /\ last.filter.limit = 0

\* the parameters of the event's tags of one name
ParamsOf(e, name) ==
  UNION { {e.tags[j][n] : n \in 2..Len(e.tags[j])} :
            j \in {x \in 1..Len(e.tags) : e.tags[x][1] = name} }

TermsOf(f, k) == {f[k][i] : i \in 1..Len(f[k])}

\* C22: with tag-filter keys, an event matches a filter of the grammar only
\* if every key with terms finds a tag of its name holding one of the terms
\* (and it does match when the other fields admit it too); a key without
\* terms constrains nothing; {"#e": ["X"]} matches exactly the events
\* having an e tag with X.
C22_TagKeysConjoined ==
  (/\ last.op = "match_filter"
   /\ InGrammar(last.filter)
   /\ GrammarTagKeys(last.filter) # {})
  => LET f == last.filter
         e == last.event
         tagsOk == \A k \in GrammarTagKeys(f) :
                     TermsOf(f, k) # {}
                       => ParamsOf(e, GrammarTagName(k))
                            \cap TermsOf(f, k) # {}
     IN /\ last.result => tagsOk
        /\ last.result <=> (FieldsAdmit(f, e) /\ tagsOk)
        /\ f = ("#e" :> <<"X">>)
             => (last.result <=> "X" \in ParamsOf(e, "e"))

\* three keys, each met by a different tag of the event
C22_Witness ==
  /\ last.op = "match_filter" /\ last.result
  /\ DOMAIN last.filter = {"#e", "#p", "#t"}
  /\ Len(last.filter["#e"]) = 2
  /\ Len(last.event.tags) = 3


\* C23: every EVENT frame written while a REQ is replayed carries the
\* REQ's subscription id and an event that is in the store and is wanted
\* by one of the REQ's filters; other subscriptions of the connection get
\* nothing from it.
C23_ReplayOnlyOwnMatches ==
  last.op = "REQ"
  => \A i \in 1..Len(fx) :
       IsEventSend(fx[i])
         => /\ fx[i].to = last.c
            /\ fx[i].frame.sub = last.sub
            /\ \E j \in 1..Len(cache) : cache[j] = fx[i].frame.event
            /\ \E k \in 1..Len(last.filters) :
                 FieldsAdmit(last.filters[k], fx[i].frame.event)
                 /\ \A t \in GrammarTagKeys(last.filters[k]) :
                      TermsOf(last.filters[k], t) # {}
                        => ParamsOf(fx[i].frame.event, GrammarTagName(t))
                             \cap TermsOf(last.filters[k], t) # {}

\* a second subscription of a connection replays an event that no filter
\* of its first subscription wants
C23_Witness ==
  /\ last.op = "REQ"
  /\ \E i \in 1..Len(fx) :
       /\ IsEventSend(fx[i])
       /\ \E n \in 1..Len(subs) :
            /\ subs[n].instance = last.c
            /\ subs[n].sub_id # last.sub
            /\ \A k \in 1..Len(subs[n].filters) :
                 ~match_filter(fx[i].frame.event, subs[n].filters[k])


\* the filters the registry holds under a connection's key for an id
FiltersOf(m, c, sub_id) ==
  IF MapHas(m, Uid(sid[c], sub_id))
  THEN << MapGet(m, Uid(sid[c], sub_id)).filters >>
  ELSE <<>>

\* C24: a REQ for an id the connection already has replaces the entry, so
\* that the registry holds one entry at most for a connection and an id
\* and that entry has the filters of the latest REQ; on every other step
\* the filters of a subscription a session holds stay as they are.
C24_FiltersFixedBetweenReqs ==
  [][ /\ (Handled("REQ") /\ Len(last'.filters) >= 1)
         => /\ FiltersOf(subs', last'.c, last'.sub) = << last'.filters >>
            /\ Cardinality({n \in 1..Len(subs') :
                  /\ subs'[n].instance = last'.c
                  /\ subs'[n].sub_id = last'.sub}) = 1
      /\ \A c \in Conns : \A s \in ssubs[c] \cap ssubs'[c] :
           (/\ ~(Handled("REQ") /\ last'.c = c /\ last'.sub = s)
            /\ last'.op # "close"
            /\ FiltersOf(subs, c, s) # <<>>
            /\ FiltersOf(subs', c, s) # <<>>)
           => FiltersOf(subs', c, s) = FiltersOf(subs, c, s) ]_vars


\* C25: a purge tick empties the store and changes nothing else: registry,
\* sockets, sessions and the connection counter are as before, a valid
\* event published next is acknowledged, stored and delivered to the
\* subscriptions the registry held before the tick, a REQ handled next
\* replays nothing, and every REQ replays only events stored since the
\* store was last emptied.
C25_PurgeOnlyEmptiesStore ==
  [][ /\ last'.op = "purge"
         => /\ cache' = <<>>
            /\ UNCHANGED <<subs, ssubs, sess, sid, readyState, rcv, conn,
                           wss, isClosing>>
            /\ \A c \in Conns : \A e \in (Events \cup FrameEvents) \ {EvNull} :
                 (/\ ~verify_event(e).threw
                  /\ verify_event(e).val
                  /\ e.kind # TunnelKind)
                 => OnEventFx(c, e)' =
                      send(c, OkFrame(e, TRUE, ""))
                        \o << [op |-> "store", event |-> e] >>
                        \o Notify(subs, e, 1, <<>>)
            /\ \A c \in Conns : \A s \in SubIds :
                 \A fl \in FilterLists \cup FrameFilterLists :
                 \A i \in 1..Len(OnReqFx(c, s, fl)') :
                   ~IsEventSend(OnReqFx(c, s, fl)'[i])
      /\ Handled("REQ")
         => \A i \in 1..Len(fx') :
              IsEventSend(fx'[i]) => fx'[i].frame.event \in storedSince' ]_vars

\* a tick emptied a store that held an acknowledged event while a
\* subscription of an open connection was registered
C25_Witness ==
  /\ last.op = "purge"
  /\ ~isClosing
  /\ acked # {} /\ cache = <<>>
  /\ \E n \in 1..Len(subs) : IsOpen(subs[n].instance)
  /\ conn >= 1


\* connections accepted and not yet torn down
Up == {c \in Conns : sess[c] = "live"}

\* C26: conn is the number of accepted connections whose teardown has not
\* run: never negative, zero when none is up, one more on each accepted
\* socket, one less on each socket close, and unchanged on every other
\* step.
C26_ConnCountsLiveSessions ==
  /\ [](conn = Cardinality(Up) /\ conn >= 0 /\ (Up = {} => conn = 0))
  /\ [][ /\ \A c \in Up' \ Up : conn' = conn + 1
         /\ \A c \in Up \ Up' : conn' = conn - 1
         /\ Up' = Up => conn' = conn ]_vars

\* two connections were accepted and both have been torn down
C26_Witness ==
  /\ last.op = "cleanup"
  /\ \A c \in Conns : sess[c] = "gone"
  /\ conn = 0


\* C27: when a validated event is published, every registered subscription
\* with an open socket that has a filter wanting the event is written
\* exactly one EVENT[subId, event] frame, however many of its filters want
\* the event.
C27_OneLiveFramePerSubscription ==
  [][ (Handled("EVENT") /\ last'.event.kind # TunnelKind
         /\ ~FailsValidation(last'.event))
      => \A n \in 1..Len(subs) :
           (/\ IsOpen(subs[n].instance)
            /\ \E k \in 1..Len(subs[n].filters) :
                 Wants(subs[n].filters[k], last'.event))
           => Cardinality({i \in 1..Len(fx') :
                 /\ IsEventSend(fx'[i])
                 /\ fx'[i].to = subs[n].instance
                 /\ fx'[i].frame.sub = subs[n].sub_id
                 /\ fx'[i].frame.event = last'.event}) = 1 ]_vars


\* the ids of the registry entries a connection owns
OwnedIds(c) == {subs[n].sub_id : n \in {x \in 1..Len(subs) : subs[x].instance = c}}

\* C28: every registry entry belongs to a connection whose teardown has not
\* run, and the ids of the entries a connection owns are exactly the ids in
\* its session's set.
C28_RegistryMirrorsSessions ==
  /\ \A n \in 1..Len(subs) : sess[subs[n].instance] = "live"
  /\ \A c \in Conns : OwnedIds(c) = ssubs[c]


\* C28, amended: every registry entry belongs to a connection whose
\* teardown has not run and its id is in that session's set; a session's
\* set may hold ids the registry has no entry for.
C28_RegistryWithinSessions ==
  /\ \A n \in 1..Len(subs) : sess[subs[n].instance] = "live"
  /\ \A c \in Conns : OwnedIds(c) \subseteq ssubs[c]

\* after a teardown the registry still holds the other connection's entry,
\* and the torn-down session owns none
C28_Witness ==
  /\ last.op = "cleanup"
  /\ OwnedIds(last.c) = {}
  /\ \E n \in 1..Len(subs) : subs[n].instance # last.c
  /\ nframes >= 2


\* C29: a REQ whose replay raises an exception leaves the registry and the
\* session's set as they were before the frame.
C29_FailedReqRegistersNothing ==
  [][ (Handled("REQ") /\ last'.threw /\ ~SomeThrows(last'.filters, 1))
      => UNCHANGED <<subs, ssubs>> ]_vars

\* C30: an EVENT frame of arity 2 handled on an open connection writes
\* exactly one OK frame, to its sender, whatever the payload: true when the
\* event went into the store, false when it did not.
C30_EveryEventGetsOneOk ==
  [][ (Handled("EVENT") /\ readyState[last'.c] = "OPEN")
      => LET oks == {i \in 1..Len(fx') :
                       IsSend(fx'[i]) /\ fx'[i].frame.verb = "OK"}
         IN /\ Cardinality(oks) = 1
            /\ \A i \in oks :
                 /\ fx'[i].to = last'.c
                 /\ fx'[i].frame.ok <=> (Len(cache') = Len(cache) + 1) ]_vars

====
